---- MODULE Spec2Model ----
(***************************************************************************)
(* A model of src/contract.py: the contract-PDF pipeline.                  *)
(*                                                                         *)
(* A Python str is a sequence of one-character strings; "" is << >>.       *)
(* Four specifications share the variables:                                *)
(*   SpecNormalize  normalize_text applied once and twice to a raw text    *)
(*   SpecLocate     find_relevant_section applied to a text and a type     *)
(*   SpecGroq       one call of call_groq against a backend outcome        *)
(*   Spec           main(): the batch loop and the two output writes       *)
(***************************************************************************)
EXTENDS Integers, Sequences, FiniteSets, TLC

VARIABLES
    \* normalize_text
    raw,          \* the raw text handed to normalize_text
    norm1,        \* normalize_text(raw)
    norm2,        \* normalize_text(normalize_text(raw))
    npc,          \* "in" | "once" | "twice" ("idle" outside SpecNormalize)
    \* find_relevant_section
    text,         \* the text argument
    clause_type,  \* the clause_type argument
    window,       \* the string returned
    lpc,          \* "in" | "done" ("idle" outside SpecLocate)
    \* call_groq
    backend,      \* what client.chat.completions.create does on this call
    max_tokens,   \* the max_tokens argument
    gret,         \* how call_groq ended: [ret, exc, log]
    gpc,          \* "in" | "done" ("idle" outside SpecGroq)
    \* main
    out_csv,      \* whether --out_csv was given
    pdfs,         \* sorted(input_dir.glob("*.pdf"))
    idx,          \* the index in pdfs of the document the loop is at
    pc,           \* "loop" | "send" | "wait" | "csv" | "finish" | "exit" |
                  \* "crashed" ("idle" outside Spec)
    full_text,    \* process_contract's full_text
    fields,       \* the gateway results process_contract has so far
    inflight,     \* the gateway requests sent and not yet answered
    rows,         \* the records appended so far
    json_file,    \* the content of out_json (None: never written)
    csv_file,     \* the content of out_csv (None: never written)
    stdout,       \* the "Error processing" and "Done" lines printed
    \* history: what happened, for the claims
    corrupt,      \* the documents whose text extraction raised
    calls,        \* every gateway call issued: [doc, clause, max_tokens, failed]
    attempted     \* the output writes attempted

nvars == <<raw, norm1, norm2, npc>>
lvars == <<text, clause_type, window, lpc>>
gvars == <<backend, max_tokens, gret, gpc>>
mvars == <<out_csv, pdfs, idx, pc, full_text, fields, inflight, rows,
           json_file, csv_file, stdout, corrupt, calls, attempted>>
vars == <<raw, norm1, norm2, npc, text, clause_type, window, lpc,
          backend, max_tokens, gret, gpc,
          out_csv, pdfs, idx, pc, full_text, fields, inflight, rows,
          json_file, csv_file, stdout, corrupt, calls, attempted>>

IdleNormalize == raw = << >> /\ norm1 = << >> /\ norm2 = << >> /\ npc = "idle"
IdleLocate == text = << >> /\ clause_type = << >> /\ window = << >> /\ lpc = "idle"
IdleGroq == backend = << >> /\ max_tokens = 0 /\ gret = << >> /\ gpc = "idle"
IdleMain ==
    /\ out_csv = FALSE /\ pdfs = << >> /\ idx = 0 /\ pc = "idle"
    /\ full_text = << >> /\ fields = << >> /\ inflight = << >> /\ rows = << >>
    /\ json_file = << >> /\ csv_file = << >> /\ stdout = << >>
    /\ corrupt = {} /\ calls = << >> /\ attempted = {}

----------------------------------------------------------------------------
(* Characters and strings                                                  *)

SP  == " "
TAB == "\t"
LF  == "\n"
CR  == "\r"
FF  == "\f"

\* What Python's str.strip() removes and the regex class \s matches, among
\* the characters the model uses.
Whitespace == {SP, TAB, LF, CR, FF}

\* The regex class \d.
Digits == {"0", "1", "2", "3", "4", "5", "6", "7", "8", "9"}

UpperAlpha == <<"A","B","C","D","E","F","G","H","I","J","K","L","M",
                "N","O","P","Q","R","S","T","U","V","W","X","Y","Z">>
LowerAlpha == <<"a","b","c","d","e","f","g","h","i","j","k","l","m",
                "n","o","p","q","r","s","t","u","v","w","x","y","z">>

UpperSet == {UpperAlpha[i] : i \in 1..26}

LowerMap == [c \in UpperSet |-> LowerAlpha[CHOOSE i \in 1..26 : UpperAlpha[i] = c]]

\* Case folding of one character, as re.IGNORECASE and str.lower() do it.
Lower(c) == IF c \in UpperSet THEN LowerMap[c] ELSE c

\* s[i:] of Python, with i a 1-based index.
From(s, i) == SubSeq(s, i, Len(s))

\* Whether the literal kw (lower case) matches s at index i, ignoring case.
MatchesAt(s, i, kw) ==
    /\ i >= 1
    /\ i + Len(kw) - 1 <= Len(s)
    /\ \A j \in 1..Len(kw) : Lower(s[i + j - 1]) = kw[j]

\* The first index >= j whose character is outside class (Len(s)+1 if none):
\* where a greedy C+ that starts at j stops.
RECURSIVE RunEnd(_, _, _)
RunEnd(s, j, class) ==
    IF j > Len(s) \/ s[j] \notin class THEN j ELSE RunEnd(s, j + 1, class)

----------------------------------------------------------------------------
(* normalize_text                                                          *)

\* txt.replace("\r\n", "\n")
RECURSIVE ReplaceCRLF(_)
ReplaceCRLF(s) ==
    IF s = << >> THEN << >>
    ELSE IF Len(s) >= 2 /\ s[1] = CR /\ s[2] = LF
         THEN <<LF>> \o ReplaceCRLF(From(s, 3))
         ELSE <<s[1]>> \o ReplaceCRLF(Tail(s))

\* .replace("\r", "\n")
ReplaceCR(s) == [i \in 1..Len(s) |-> IF s[i] = CR THEN LF ELSE s[i]]

\* re.sub(r"[ \t]+", " ", txt)
CollapseBlanks(s) ==
    LET RECURSIVE go(_)
        go(i) == IF i > Len(s) THEN << >>
                 ELSE IF s[i] \in {SP, TAB}
                      THEN <<SP>> \o go(RunEnd(s, i, {SP, TAB}))
                      ELSE <<s[i]>> \o go(i + 1)
    IN go(1)

\* The least run length the newline pattern \n{3,} matches.
MinNewlineRun == 3

\* re.sub(r"\n{3,}", "\n\n", txt)
CollapseNewlines(s) ==
    LET RECURSIVE go(_)
        go(i) == IF i > Len(s) THEN << >>
                 ELSE IF s[i] = LF /\ RunEnd(s, i, {LF}) - i >= MinNewlineRun
                      THEN <<LF, LF>> \o go(RunEnd(s, i, {LF}))
                      ELSE <<s[i]>> \o go(i + 1)
    IN go(1)

\* Where a match of Page\s+\d+\s+of\s+\d+ (IGNORECASE) that starts at i ends
\* (the index after it), or 0 when there is none. The classes that follow one
\* another are disjoint, so each greedy + takes its whole run.
FooterEnd(s, i) ==
    IF ~MatchesAt(s, i, <<"p", "a", "g", "e">>) THEN 0
    ELSE LET s1 == RunEnd(s, i + 4, Whitespace)
             d1 == RunEnd(s, s1, Digits)
             s2 == RunEnd(s, d1, Whitespace)
             s3 == RunEnd(s, s2 + 2, Whitespace)
             d2 == RunEnd(s, s3, Digits)
         IN IF /\ s1 > i + 4
               /\ d1 > s1
               /\ s2 > d1
               /\ MatchesAt(s, s2, <<"o", "f">>)
               /\ s3 > s2 + 2
               /\ d2 > s3
            THEN d2 ELSE 0

\* re.sub(r"Page\s+\d+\s+of\s+\d+", "", txt, flags=re.IGNORECASE): the
\* matches are taken leftmost first and do not overlap.
RemoveFooters(s) ==
    LET RECURSIVE go(_)
        go(i) == IF i > Len(s) THEN << >>
                 ELSE IF FooterEnd(s, i) # 0 THEN go(FooterEnd(s, i))
                      ELSE <<s[i]>> \o go(i + 1)
    IN go(1)

\* str.strip()
Strip(s) ==
    LET first == RunEnd(s, 1, Whitespace)
        RECURSIVE back(_)
        back(j) == IF j < first \/ s[j] \notin Whitespace THEN j ELSE back(j - 1)
    IN SubSeq(s, first, back(Len(s)))

normalize_text_nostrip(txt) ==
    RemoveFooters(CollapseNewlines(CollapseBlanks(ReplaceCR(ReplaceCRLF(txt)))))

normalize_text(txt) ==
    Strip(RemoveFooters(CollapseNewlines(CollapseBlanks(ReplaceCR(ReplaceCRLF(txt))))))

----------------------------------------------------------------------------
(* Inputs of normalize_text: concatenations of a few fragments             *)

MaxFrags == 3

Footer == <<"P","a","g","e"," ","1"," ","o","f"," ","2">>

Fragments == {
    <<"a">>, <<SP>>, <<TAB>>, <<LF>>, <<CR>>, Footer,
    <<SP,"p","A","G","E",LF,"1","0",TAB,"O","f",SP,"3",SP>> }

RECURSIVE Concat(_)
Concat(ss) == IF ss = << >> THEN << >> ELSE Head(ss) \o Concat(Tail(ss))

RawTexts == {Concat(fs) : fs \in UNION {[1..k -> Fragments] : k \in 0..MaxFrags}}

InitNormalize ==
    /\ raw \in RawTexts
    /\ norm1 = << >>
    /\ norm2 = << >>
    /\ npc = "in"
    /\ IdleLocate
    /\ IdleGroq
    /\ IdleMain

\* full_text = normalize_text(raw)
Normalize ==
    /\ npc = "in"
    /\ norm1' = normalize_text(raw)
    /\ npc' = "once"
    /\ UNCHANGED <<raw, norm2, lvars, gvars, mvars>>

\* normalize_text applied to its own output
NormalizeAgain ==
    /\ npc = "once"
    /\ norm2' = normalize_text(norm1)
    /\ npc' = "twice"
    /\ UNCHANGED <<raw, norm1, lvars, gvars, mvars>>

NextNormalize == Normalize \/ NormalizeAgain

SpecNormalize == InitNormalize /\ [][NextNormalize]_vars

----------------------------------------------------------------------------
(* Claims about normalize_text                                             *)

\* C4 (as claimed): normalize_text is idempotent: for every raw text x,
\* normalize_text(normalize_text(x)) = normalize_text(x).
C4_Idempotent == npc = "twice" => norm2 = norm1

\* The text with only its leading and trailing whitespace removed.
Trim(s) ==
    LET solid == {i \in 1..Len(s) : s[i] \notin Whitespace}
    IN IF solid = {} THEN << >>
       ELSE SubSeq(s, CHOOSE i \in solid : \A j \in solid : i <= j,
                      CHOOSE i \in solid : \A j \in solid : j <= i)

\* Whether s holds n consecutive characters of class.
HasRun(s, class, n) ==
    \E i \in 1..(Len(s) - n + 1) : \A j \in 0..(n - 1) : s[i + j] \in class

NoNewlineOrSpaceRun == ~HasRun(raw, {LF}, 3) /\ ~HasRun(raw, {SP}, 2)

NoRewrittenChar ==
    /\ \A i \in 1..Len(raw) : raw[i] \notin {CR, TAB}
    /\ \A i \in 1..Len(raw) : FooterEnd(raw, i) = 0

\* C5 (as claimed): for every text x with no run of three or more newlines
\* and no run of two or more spaces, normalize_text(x) = trim(x).
C5_TrimOnly == (npc = "once" /\ NoNewlineOrSpaceRun) => norm1 = Trim(raw)

\* C5 (amended): for every text x with no carriage return, no tab, no
\* "Page <n> of <m>" footer, no run of three or more newlines and no run of
\* two or more spaces, normalize_text(x) = trim(x).
C5_TrimOnlyPlain ==
    (npc = "once" /\ NoNewlineOrSpaceRun /\ NoRewrittenChar) => norm1 = Trim(raw)

\* C5 witness: such a text, with whitespace at both ends, normalized.
C5_Witness ==
    /\ npc = "once"
    /\ NoNewlineOrSpaceRun
    /\ NoRewrittenChar
    /\ raw = <<SP, "a", LF>>
    /\ norm1 = <<"a">>

----------------------------------------------------------------------------
(* find_relevant_section                                                   *)

\* The count {0,1800} of the three patterns: characters kept after the anchor.
WindowAfter == 1800

\* The fallback slice text[:2000].
FallbackLen == 2000

Str_termination == <<"t","e","r","m","i","n","a","t","i","o","n">>
Str_confidentiality ==
    <<"c","o","n","f","i","d","e","n","t","i","a","l","i","t","y">>
Str_liability == <<"l","i","a","b","i","l","i","t","y">>

\* The anchor of each pattern of the patterns dict, keyed by clause type.
PatternsTypo ==
    [k \in {Str_termination, Str_confidentiality, Str_liability} |->
        IF k = Str_termination THEN <<"t","e","r","m","i","n","a","t","e">>
        ELSE IF k = Str_confidentiality THEN SubSeq(Str_confidentiality, 1, 12)
        ELSE SubSeq(Str_liability, 1, 8)]

Patterns ==
    [k \in {Str_termination, Str_confidentiality, Str_liability} |->
        IF k = Str_termination THEN Str_termination
        ELSE IF k = Str_confidentiality THEN SubSeq(Str_confidentiality, 1, 12)
        ELSE SubSeq(Str_liability, 1, 8)]

\* str.lower()
LowerStr(s) == [i \in 1..Len(s) |-> Lower(s[i])]

\* Every index at which the anchor matches, ignoring case.
Matches(s, kw) == {i \in 1..Len(s) : MatchesAt(s, i, kw)}

\* A search that takes the last match instead of the first.
SearchLast(s, kw) ==
    LET m == Matches(s, kw)
    IN IF m = {} THEN 0 ELSE CHOOSE i \in m : \A j \in m : j <= i

\* re.search: the index of the leftmost match of the anchor, 0 when none.
Search(s, kw) ==
    LET m == Matches(s, kw)
    IN IF m = {} THEN 0 ELSE CHOOSE i \in m : \A j \in m : i <= j

MinOf(a, b) == IF a <= b THEN a ELSE b

\* A locator whose fallback returns the whole text.
find_relevant_section_noslice(txt, ctype) ==
    LET key == LowerStr(ctype)
        at == IF key \in DOMAIN Patterns THEN Search(txt, Patterns[key]) ELSE 0
    IN IF at # 0
       THEN SubSeq(txt, at, MinOf(Len(txt), at + Len(Patterns[key]) + WindowAfter - 1))
       ELSE txt

\* pattern = patterns.get(clause_type.lower()); the match's group 1 is the
\* anchor and the up to 1800 characters after it ([\s\S] matches any
\* character, greedily); without a pattern or a match, text[:2000].
find_relevant_section(txt, ctype) ==
    LET key == LowerStr(ctype)
        at == IF key \in DOMAIN Patterns THEN Search(txt, Patterns[key]) ELSE 0
    IN IF at # 0
       THEN SubSeq(txt, at, MinOf(Len(txt), at + Len(Patterns[key]) + WindowAfter - 1))
       ELSE SubSeq(txt, 1, MinOf(Len(txt), FallbackLen))

----------------------------------------------------------------------------
(* Inputs of find_relevant_section: concatenations of a few chunks         *)

MaxChunks == 3
FillLen == 1900

\* Filler with no anchor in it: lines of x.
Fill == [i \in 1..FillLen |-> IF i % 60 = 0 THEN LF ELSE "x"]

Phrase == <<"T","h","i","s"," ","A","g","r","e","e","m","e","n","t","'","s"," ",
            "t","e","r","m","i","n","a","t","i","o","n"," ",
            "d","a","t","e"," ","i","s"," ","f","i","n","a","l",".">>

Chunks == {
    Fill,
    Phrase,
    <<"T","E","R","M","I","N","A","T","I","O","N",LF>>,
    <<"C","o","n","f","i","d","e","n","t","i","a","l"," ">>,
    <<"L","i","a","b","i","l","i","t","i","e","s",".">>,
    <<"t","e","r","m","i","n","a","t","e","d"," ">> }

Texts == {Concat(cs) : cs \in UNION {[1..k -> Chunks] : k \in 0..MaxChunks}}

ClauseTypes == {
    Str_termination,
    <<"C","o","n","f","i","d","e","n","t","i","a","l","i","t","y">>,
    Str_liability,
    <<"i","n","d","e","m","n","i","t","y">> }

InitLocate ==
    /\ text \in Texts
    /\ clause_type \in ClauseTypes
    /\ window = << >>
    /\ lpc = "in"
    /\ IdleNormalize
    /\ IdleGroq
    /\ IdleMain

\* filtered = find_relevant_section(full_text, clause_type)
Locate ==
    /\ lpc = "in"
    /\ window' = find_relevant_section(text, clause_type)
    /\ lpc' = "done"
    /\ UNCHANGED <<text, clause_type, nvars, gvars, mvars>>

NextLocate == Locate

SpecLocate == InitLocate /\ [][NextLocate]_vars

----------------------------------------------------------------------------
(* Claims about find_relevant_section                                      *)

\* The anchor the locator searches for clause type ctype, << >> for a type
\* that is none of the three.
AnchorOf(ctype) ==
    IF LowerStr(ctype) = Str_termination THEN Str_termination
    ELSE IF LowerStr(ctype) = Str_confidentiality
         THEN <<"c","o","n","f","i","d","e","n","t","i","a","l">>
    ELSE IF LowerStr(ctype) = Str_liability
         THEN <<"l","i","a","b","i","l","i","t">>
    ELSE << >>

AnchorFound ==
    LET anchor == AnchorOf(clause_type)
    IN anchor # << >> /\ \E i \in 1..Len(text) : MatchesAt(text, i, anchor)

\* C6: for every text and clause type (one of the three or not) the window
\* returned has at most 2000 characters, and at most 1800 plus the length of
\* the anchor when an anchor is found.
C6_WindowBounded ==
    lpc = "done" =>
        /\ Len(window) <= 2000
        /\ AnchorFound => Len(window) <= 1800 + Len(AnchorOf(clause_type))

\* C6 witnesses: a window of the full 1800 characters after a found anchor,
\* and (C6_WitnessFallback) a fallback of the full 2000 characters.
C6_Witness ==
    /\ lpc = "done"
    /\ AnchorFound
    /\ Len(window) = 1800 + Len(AnchorOf(clause_type))
    /\ Len(text) > Len(window)

C6_WitnessFallback ==
    /\ lpc = "done"
    /\ ~AnchorFound
    /\ Len(window) = 2000
    /\ Len(text) > 2000

\* Whether the literal sentence Phrase stands in the text at index p.
PhraseAt(p) ==
    /\ p + Len(Phrase) - 1 <= Len(text)
    /\ \A j \in 1..Len(Phrase) : text[p + j - 1] = Phrase[j]

Stem_terminat == <<"t","e","r","m","i","n","a","t">>

\* Where the word "termination" starts inside Phrase, counted from 0.
WordOffset == (CHOOSE i \in 1..Len(Phrase) : MatchesAt(Phrase, i, Stem_terminat)) - 1

\* The text holds Phrase at p and no other occurrence of "terminat", and the
\* locator was asked for the termination clause.
OnlyInPhrase(p) ==
    /\ PhraseAt(p)
    /\ LowerStr(clause_type) = Str_termination
    /\ Matches(text, Stem_terminat) = {p + WordOffset}

\* C7 (as claimed): when the only occurrence of "terminat" lies inside the
\* sentence "This Agreement's termination date is final.", the window
\* returned for termination starts at or before the start of that sentence
\* and so contains the sentence from its beginning.
C7_WindowFromPhraseStart ==
    lpc = "done" =>
        \A p \in 1..Len(text) :
            OnlyInPhrase(p) =>
                \E s \in 1..p :
                    /\ window = SubSeq(text, s, s + Len(window) - 1)
                    /\ s + Len(window) >= p + Len(Phrase)

\* C7 (amended): in that case the window starts at the word "termination"
\* inside the sentence (after the sentence's start, before its end) and runs
\* for that word and the up to 1800 characters after it: it contains the
\* sentence from "termination" on, not from its beginning.
C7_WindowFromAnchor ==
    lpc = "done" =>
        \A p \in 1..Len(text) :
            OnlyInPhrase(p) =>
                /\ WordOffset > 0
                /\ WordOffset < Len(Phrase)
                /\ window = SubSeq(text, p + WordOffset,
                                   MinOf(Len(text), p + WordOffset + 11 + 1800 - 1))

\* C7 witness: the sentence in the middle of a text, located.
C7_Witness ==
    /\ lpc = "done"
    /\ \E p \in 2..Len(text) :
        /\ OnlyInPhrase(p)
        /\ Len(text) > p + Len(Phrase) + 1800
        /\ Head(window) = "t"
        /\ Len(window) = 1811

C9_WitnessPrefix ==
    /\ lpc = "done"
    /\ AnchorOf(clause_type) # << >>
    /\ Matches(text, AnchorOf(clause_type)) = {}
    /\ Len(text) > 2000
    /\ window = SubSeq(text, 1, 2000)

----------------------------------------------------------------------------
(* call_groq                                                               *)

\* Python's None, which is no string.
None == <<"<None>">>

\* The default of the max_tokens parameter.
DefaultMaxTokens == 3000

NoException == "none"

\* The except clause: print("Groq Error:", e); return "".
Caught(e) == [ret |-> << >>, exc |-> NoException, log |-> <<e>>]

\* An except clause that catches the client's errors only.
call_groq_narrow(out) ==
    IF out.kind = "raise" THEN Caught(out.error)
    ELSE IF out.choices = << >>
         THEN [ret |-> None, exc |-> "IndexError", log |-> << >>]
    ELSE IF out.choices[1] = None
         THEN [ret |-> None, exc |-> "AttributeError", log |-> << >>]
    ELSE [ret |-> Strip(out.choices[1]), exc |-> NoException, log |-> << >>]

\* An except clause that returns None.
call_groq_none(out) ==
    IF out.kind = "raise" \/ out.choices = << >> \/ out.choices[1] = None
    THEN [ret |-> None, exc |-> NoException, log |-> <<"error">>]
    ELSE [ret |-> Strip(out.choices[1]), exc |-> NoException, log |-> << >>]

\* One call: out is what the backend does. The result says what the caller
\* gets (ret), the exception that reaches the caller (exc) and what was
\* printed (log). resp.choices[0] of an empty list raises IndexError, and
\* .strip() of a None content raises AttributeError, both inside the try.
call_groq(out) ==
    IF out.kind = "raise" THEN Caught(out.error)
    ELSE IF out.choices = << >> THEN Caught("IndexError")
    ELSE IF out.choices[1] = None THEN Caught("AttributeError")
    ELSE [ret |-> Strip(out.choices[1]), exc |-> NoException, log |-> << >>]

----------------------------------------------------------------------------
(* Inputs of call_groq: what the backend may do                            *)

MaxReply == 3

Raises(e) == [kind |-> "raise", error |-> e, choices |-> << >>]
Responds(cs) == [kind |-> "response", error |-> "", choices |-> cs]

Replies == UNION {[1..k -> {SP, LF, "a"}] : k \in 0..MaxReply}

BackendOutcomes ==
    {Raises(e) : e \in {"APIConnectionError", "AuthenticationError", "RateLimitError"}}
    \cup {Responds(<< >>), Responds(<<None>>)}
    \cup {Responds(<<r>>) : r \in Replies}

InitGroq ==
    /\ backend \in BackendOutcomes
    /\ max_tokens \in {DefaultMaxTokens, 800, 400}
    /\ gret = << >>
    /\ gpc = "in"
    /\ IdleNormalize
    /\ IdleLocate
    /\ IdleMain

CallGroq ==
    /\ gpc = "in"
    /\ gret' = call_groq(backend)
    /\ gpc' = "done"
    /\ UNCHANGED <<backend, max_tokens, nvars, lvars, mvars>>

NextGroq == CallGroq

SpecGroq == InitGroq /\ [][NextGroq]_vars

----------------------------------------------------------------------------
(* Claims about call_groq                                                  *)

\* The backend call failed: it raised, or its response has no choice or a
\* null content.
BackendFailed(out) ==
    \/ out.kind = "raise"
    \/ out.choices = << >>
    \/ out.choices[1] = None

\* C2: call_groq never lets an exception reach its caller; for every failure
\* of the backend call (network, auth, rate limit, a response without choices
\* or with a null content) it logs the failure and returns the empty string;
\* on success it returns the response text with its leading and trailing
\* whitespace removed.
C2_FailSoft ==
    gpc = "done" =>
        /\ gret.exc = NoException
        /\ BackendFailed(backend) => gret.ret = << >> /\ Len(gret.log) = 1
        /\ ~BackendFailed(backend) =>
               gret.ret = Trim(backend.choices[1]) /\ gret.log = << >>

\* C2 witnesses: a malformed response swallowed, and (C2_WitnessStripped) a
\* reply returned without its surrounding whitespace.
C2_Witness ==
    /\ gpc = "done"
    /\ backend = Responds(<<None>>)
    /\ gret.ret = << >>
    /\ gret.log = <<"AttributeError">>

C2_WitnessStripped ==
    /\ gpc = "done"
    /\ backend = Responds(<< <<SP, "a", LF>> >>)
    /\ gret.ret = <<"a">>

----------------------------------------------------------------------------
(* extract_text_from_pdf, extract_clause, summarize_contract,              *)
(* process_contract                                                        *)

\* "\n\n".join(parts)
RECURSIVE Join(_)
Join(parts) ==
    IF parts = << >> THEN << >>
    ELSE IF Len(parts) = 1 THEN parts[1]
    ELSE parts[1] \o <<LF, LF>> \o Join(Tail(parts))

\* pages is what page.extract_text() gives for each page of the opened PDF,
\* None for a page without text: text = page.extract_text() or "".
extract_text_from_pdf(pages) ==
    Join([i \in 1..Len(pages) |-> IF pages[i] = None THEN << >> ELSE pages[i]])

\* The slice full_text[:5000] of summarize_contract.
SummaryLen == 5000

ClauseMaxTokens == 800
SummaryMaxTokens == 400

Str_summary == <<"s","u","m","m","a","r","y">>

\* The order of the four gateway calls of process_contract.
CallOrder == <<Str_termination, Str_confidentiality, Str_liability, Str_summary>>

\* The max_tokens extract_clause and summarize_contract pass to call_groq.
MaxTokensFor(purpose) ==
    IF purpose = Str_summary THEN SummaryMaxTokens ELSE ClauseMaxTokens

\* The part of the document that goes into the user prompt.
Excerpt(txt, purpose) ==
    IF purpose = Str_summary THEN SubSeq(txt, 1, MinOf(Len(txt), SummaryLen))
    ELSE find_relevant_section(txt, purpose)

\* The dict process_contract returns; results holds the gateway results in
\* the order of CallOrder.
Record(id, results) ==
    [contract_id |-> id, summary |-> results[4], termination |-> results[1],
     confidentiality |-> results[2], liability |-> results[3]]

----------------------------------------------------------------------------
(* File names: Path.stem, glob("*.pdf"), sorted                            *)

Ord == [c \in {"-", ".", "a", "b", "c", "d", "f", "p", "t", "x"} |->
          CASE c = "-" -> 45 [] c = "." -> 46 [] c = "a" -> 97 [] c = "b" -> 98
            [] c = "c" -> 99 [] c = "d" -> 100 [] c = "f" -> 102
            [] c = "p" -> 112 [] c = "t" -> 116 [] c = "x" -> 120]

\* str.__lt__: by code point, a proper prefix first.
RECURSIVE LexLess(_, _)
LexLess(a, b) ==
    IF b = << >> THEN FALSE
    ELSE IF a = << >> THEN TRUE
    ELSE IF a[1] # b[1] THEN Ord[a[1]] < Ord[b[1]]
    ELSE LexLess(Tail(a), Tail(b))

\* sorted(names)
RECURSIVE Sorted(_)
Sorted(names) ==
    IF names = {} THEN << >>
    ELSE LET least == CHOOSE n \in names : \A m \in names \ {n} : LexLess(n, m)
         IN <<least>> \o Sorted(names \ {least})

Suffix_pdf == <<".", "p", "d", "f">>

\* input_dir.glob("*.pdf")
Glob(dir) ==
    {n \in dir : Len(n) >= 4 /\ SubSeq(n, Len(n) - 3, Len(n)) = Suffix_pdf}

\* Path.stem: the name without its last suffix.
Stem(name) ==
    LET dots == {i \in 2..Len(name) : name[i] = "."}
    IN IF dots = {} THEN name
       ELSE SubSeq(name, 1, (CHOOSE i \in dots : \A j \in dots : j <= i) - 1)

----------------------------------------------------------------------------
(* Inputs of main: the directory, the PDFs' pages, --out_csv               *)

MaxFiles == 2

NamePool == <<<<"b",".","p","d","f">>, <<"a",".","p","d","f">>, <<"a","-","b",".","p","d","f">>, <<"c",".","p","d","f">>>>

OtherFile == <<"a", ".", "t", "x", "t">>

Directories ==
    {S \cup {OtherFile} :
        S \in SUBSET {NamePool[i] : i \in 1..MinOf(MaxFiles, Len(NamePool))}}

\* What the PDF backend returns for the pages of each file, when it can
\* read the file.
PdfPages(name) ==
    IF name = NamePool[1]
    THEN <<<<"T","e","r","m","i","n","a","t","i","o","n",":",CR,LF,"3","0",SP,"d","a","y","s">>, None, <<"P","a","g","e",SP,"1",SP,"o","f",SP,"2">>>>
    ELSE <<<<"L","I","A","B","I","L","I","T","Y",SP,SP,"c","a","p">>>>

\* What the backend does on a call of the batch.
BatchOutcomes ==
    {Raises("RateLimitError"), Responds(<< >>), Responds(<<None>>),
     Responds(<< <<SP,"o","k",LF>> >>)}

Init ==
    /\ out_csv \in BOOLEAN
    /\ \E dir \in Directories : pdfs = Sorted(Glob(dir))
    /\ idx = 1
    /\ pc = "loop"
    /\ full_text = << >>
    /\ fields = << >>
    /\ inflight = << >>
    /\ rows = << >>
    /\ json_file = None
    /\ csv_file = None
    /\ stdout = << >>
    /\ corrupt = {}
    /\ calls = << >>
    /\ attempted = {}
    /\ IdleNormalize
    /\ IdleLocate
    /\ IdleGroq

\* An extraction error that ends the loop.
ExtractionFailsBreak ==
    /\ pc = "loop"
    /\ idx <= Len(pdfs)
    /\ corrupt' = corrupt \cup {pdfs[idx]}
    /\ stdout' = Append(stdout, <<"Error processing", pdfs[idx]>>)
    /\ idx' = Len(pdfs) + 1
    /\ UNCHANGED <<nvars, lvars, gvars,
                   out_csv, pdfs, pc, full_text, fields, inflight, rows,
                   json_file, csv_file, calls, attempted>>

\* pdfplumber cannot open or read pdfs[idx]: extract_text_from_pdf raises out
\* of process_contract, main's except prints the failure and the loop goes on.
ExtractionFails ==
    /\ pc = "loop"
    /\ idx <= Len(pdfs)
    /\ corrupt' = corrupt \cup {pdfs[idx]}
    /\ stdout' = Append(stdout, <<"Error processing", pdfs[idx]>>)
    /\ idx' = idx + 1
    /\ UNCHANGED <<nvars, lvars, gvars,
                   out_csv, pdfs, pc, full_text, fields, inflight, rows,
                   json_file, csv_file, calls, attempted>>

\* process_contract up to its first gateway call: raw = extract_text_from_pdf,
\* full_text = normalize_text(raw).
ExtractionSucceeds ==
    /\ pc = "loop"
    /\ idx <= Len(pdfs)
    /\ full_text' = normalize_text(extract_text_from_pdf(PdfPages(pdfs[idx])))
    /\ fields' = << >>
    /\ pc' = "send"
    /\ UNCHANGED <<nvars, lvars, gvars,
                   out_csv, pdfs, idx, inflight, rows, json_file, csv_file,
                   stdout, corrupt, calls, attempted>>

\* extract_clause / summarize_contract up to the request: the prompt is
\* built from the excerpt and call_groq sends it.
GroqSend ==
    /\ pc = "send"
    /\ LET purpose == CallOrder[Len(fields) + 1]
           req == [max_tokens |-> MaxTokensFor(purpose),
                   excerpt |-> Excerpt(full_text, purpose)]
       IN /\ inflight' = Append(inflight, req)
          /\ calls' = Append(calls, [doc |-> pdfs[idx], clause |-> purpose,
                                     max_tokens |-> req.max_tokens,
                                     result |-> "pending"])
    /\ pc' = "wait"
    /\ UNCHANGED <<nvars, lvars, gvars,
                   out_csv, pdfs, idx, full_text, fields, rows, json_file,
                   csv_file, stdout, corrupt, attempted>>

\* A return that sends a failed request once more.
GroqReturnRetry ==
    /\ pc = "wait"
    /\ \E out \in BatchOutcomes :
        LET r == call_groq(out)
            got == Append(fields, r.ret)
            first == \/ Len(calls) = 1
                     \/ calls[Len(calls) - 1].doc # calls[Len(calls)].doc
                     \/ calls[Len(calls) - 1].clause # calls[Len(calls)].clause
        IN /\ inflight' = Tail(inflight)
           /\ calls' = [calls EXCEPT ![Len(calls)].result =
                            IF r.log = << >> THEN "ok" ELSE "failed"]
           /\ IF r.log # << >> /\ first
              THEN /\ pc' = "send"
                   /\ UNCHANGED <<fields, idx, rows, stdout>>
              ELSE IF Len(got) < Len(CallOrder)
              THEN /\ fields' = got
                   /\ pc' = "send"
                   /\ UNCHANGED <<idx, rows, stdout>>
              ELSE /\ rows' = Append(rows, Record(Stem(pdfs[idx]), got))
                   /\ fields' = << >>
                   /\ idx' = idx + 1
                   /\ pc' = "loop"
                   /\ stdout' = stdout
    /\ UNCHANGED <<nvars, lvars, gvars,
                   out_csv, pdfs, full_text, json_file,
                   csv_file, corrupt, attempted>>

\* The blocking call returns: call_groq ends, its result is the clause or the
\* summary; after the fourth the record is returned and appended to rows. An
\* exception out of call_groq would reach main's except.
GroqReturn ==
    /\ pc = "wait"
    /\ \E out \in BatchOutcomes :
        LET r == call_groq(out)
            got == Append(fields, r.ret)
        IN /\ inflight' = Tail(inflight)
           /\ calls' = [calls EXCEPT ![Len(calls)].result =
                            IF r.log = << >> /\ r.exc = NoException
                            THEN "ok" ELSE "failed"]
           /\ IF r.exc # NoException
              THEN /\ stdout' = Append(stdout, <<"Error processing", pdfs[idx]>>)
                   /\ idx' = idx + 1
                   /\ pc' = "loop"
                   /\ fields' = << >>
                   /\ rows' = rows
              ELSE IF Len(got) < Len(CallOrder)
              THEN /\ fields' = got
                   /\ pc' = "send"
                   /\ UNCHANGED <<idx, rows, stdout>>
              ELSE /\ rows' = Append(rows, Record(Stem(pdfs[idx]), got))
                   /\ fields' = << >>
                   /\ idx' = idx + 1
                   /\ pc' = "loop"
                   /\ stdout' = stdout
    /\ UNCHANGED <<nvars, lvars, gvars,
                   out_csv, pdfs, full_text, json_file, csv_file, corrupt,
                   attempted>>

\* with open(out_json, "w") ...: json.dump(rows). A failure is an exception
\* out of main.
SaveJson ==
    /\ pc = "loop"
    /\ idx > Len(pdfs)
    /\ attempted' = attempted \cup {"json"}
    /\ \/ /\ json_file' = rows
          /\ pc' = IF out_csv THEN "csv" ELSE "finish"
       \/ /\ json_file' = json_file
          /\ pc' = "crashed"
    /\ UNCHANGED <<nvars, lvars, gvars,
                   out_csv, pdfs, idx, full_text, fields, inflight, rows,
                   csv_file, stdout, corrupt, calls>>

\* if out_csv: pd.DataFrame(rows).to_csv(out_csv, index=False)
SaveCsv ==
    /\ pc = "csv"
    /\ attempted' = attempted \cup {"csv"}
    /\ \/ /\ csv_file' = rows
          /\ pc' = "finish"
       \/ /\ csv_file' = csv_file
          /\ pc' = "crashed"
    /\ UNCHANGED <<nvars, lvars, gvars,
                   out_csv, pdfs, idx, full_text, fields, inflight, rows,
                   json_file, stdout, corrupt, calls>>

\* print(f"Done! Processed {len(rows)} PDFs")
Finish ==
    /\ pc = "finish"
    /\ stdout' = Append(stdout, <<"Done", Len(rows)>>)
    /\ pc' = "exit"
    /\ UNCHANGED <<nvars, lvars, gvars,
                   out_csv, pdfs, idx, full_text, fields, inflight, rows,
                   json_file, csv_file, corrupt, calls, attempted>>

Next ==
    \/ ExtractionFails
    \/ ExtractionSucceeds
    \/ GroqSend
    \/ GroqReturn
    \/ SaveJson
    \/ SaveCsv
    \/ Finish

Spec == Init /\ [][Next]_vars

----------------------------------------------------------------------------
(* Claims about main                                                       *)

\* The loop is between two documents, or over.
BetweenDocuments == pc \in {"loop", "csv", "finish", "exit", "crashed"}

LoopOver == pc \in {"csv", "finish", "exit", "crashed"}

\* The documents the loop has gone through.
Seen == SubSeq(pdfs, 1, idx - 1)

IsCorrupt(n) == n \in corrupt
IsReadable(n) == n \notin corrupt

RecordKeys == {"contract_id", "summary", "termination", "confidentiality", "liability"}

\* The failures reported so far: the files named in "Error processing" lines.
Reported ==
    LET errs == SelectSeq(stdout, LAMBDA l : l[1] = "Error processing")
    IN [i \in 1..Len(errs) |-> errs[i][2]]

\* C1: whatever subset of the sorted PDFs fails text extraction, the loop
\* goes through every document; the records are exactly one complete record
\* per document that did not fail and none for one that failed, in the
\* order of the file names; exactly one failure is reported per failing
\* document; a failure does not stop the documents after it.
C1_FailuresIsolated ==
    /\ BetweenDocuments =>
        LET good == SelectSeq(Seen, IsReadable)
        IN /\ Len(rows) = Len(good)
           /\ \A i \in 1..Len(rows) :
                /\ rows[i].contract_id = Stem(good[i])
                /\ DOMAIN rows[i] = RecordKeys
                /\ \A k \in RecordKeys : rows[i][k] # None
           /\ Reported = SelectSeq(Seen, IsCorrupt)
    /\ LoopOver => idx = Len(pdfs) + 1

\* C1 witness: the first of two documents failed, the second has its record,
\* and the run ended.
C1_Witness ==
    /\ pc = "exit"
    /\ Len(pdfs) = 2
    /\ corrupt = {pdfs[1]}
    /\ Len(rows) = 1
    /\ rows[1].contract_id = Stem(pdfs[2])
    /\ Reported = <<pdfs[1]>>

\* C1 second witness: two documents, two records in file-name order.
C1_WitnessOrder ==
    /\ pc = "exit"
    /\ Len(rows) = 2
    /\ rows[1].contract_id = <<"a">>
    /\ rows[2].contract_id = <<"b">>

AllCallsFailed == \A i \in 1..Len(calls) : calls[i].result = "failed"

\* C3: if every gateway call fails, the batch still goes through every
\* document whose text extraction succeeds and writes its output: there is
\* one record per such document, carrying its contract_id and the empty
\* string (not None) in summary, termination, confidentiality and liability;
\* the run ends early only when an output write fails.
C3_EmptyFieldsWhenGatewayDown ==
    (BetweenDocuments /\ AllCallsFailed) =>
        /\ Len(rows) = Len(SelectSeq(Seen, IsReadable))
        /\ \A i \in 1..Len(rows) :
            /\ rows[i].contract_id = Stem(SelectSeq(Seen, IsReadable)[i])
            /\ \A k \in RecordKeys \ {"contract_id"} : rows[i][k] = << >>
        /\ pc = "crashed" => attempted # {}
        /\ pc \in {"csv", "finish", "exit"} => json_file = rows
        /\ (pc \in {"finish", "exit"} /\ out_csv) => csv_file = rows

\* C3 witness: two documents, eight failed calls, the output written.
C3_Witness ==
    /\ pc = "exit"
    /\ AllCallsFailed
    /\ Len(calls) = 8
    /\ Len(rows) = 2
    /\ json_file = rows
    /\ rows[2].summary = << >>

\* C8 (as claimed): when an output write fails the run aborts only after the
\* writes independent of the failed one were attempted: if the JSON write
\* fails and a CSV destination was given, the CSV write is still attempted.
C8_CsvAttemptedBeforeAbort ==
    (pc = "crashed" /\ out_csv) => "csv" \in attempted

\* The calls made for the i-th record.
CallsOf(i) == SubSeq(calls, 4 * i - 3, 4 * i)

\* C10: a document that yields a record causes exactly four gateway calls,
\* three clause extractions with an 800-token ceiling and one summary with a
\* 400-token ceiling, one after another, each answered before the next is
\* sent and none repeated when it fails; a document that fails text
\* extraction causes none; so the calls number four times the records.
C10_FourSequentialCalls ==
    /\ Len(inflight) <= 1
    /\ inflight # << >> <=> pc = "wait"
    /\ \A i \in 1..Len(calls) :
        /\ calls[i].doc \notin corrupt
        /\ calls[i].result = "pending" => (i = Len(calls) /\ pc = "wait")
    /\ BetweenDocuments =>
        /\ Len(calls) = 4 * Len(rows)
        /\ \A i \in 1..Len(rows) :
            /\ \A j \in 1..4 : Stem(CallsOf(i)[j].doc) = rows[i].contract_id
            /\ {CallsOf(i)[j].clause : j \in 1..4} =
                   {Str_termination, Str_confidentiality, Str_liability, Str_summary}
            /\ \A j \in 1..4 :
                   CallsOf(i)[j].max_tokens =
                       IF CallsOf(i)[j].clause = Str_summary THEN 400 ELSE 800

\* C10 witness: a failed document and a document with a record whose first
\* call failed: four calls in all, none repeated.
C10_Witness ==
    /\ pc = "exit"
    /\ Len(pdfs) = 2
    /\ Cardinality(corrupt) = 1
    /\ Len(rows) = 1
    /\ Len(calls) = 4
    /\ calls[1].result = "failed"
    /\ calls[4].max_tokens = 400

====
